---- MODULE Spec2Model ----
(***************************************************************************)
(* Model of the StormworksDatalink telemetry server (src/main.go):         *)
(* the process-wide map `vessels` guarded by the sync.RWMutex `vesselsMu`, *)
(* the HTTP handlers infoGetHandler, setVesselTelemetry and                *)
(* getTelemetryData, each running in its own goroutine, and the background *)
(* goroutine cleanupOldVessels.                                            *)
(*                                                                         *)
(* Text received on the wire (query parameters) is a sequence of           *)
(* one-character strings, so that the parsers read it character by         *)
(* character as strconv.ParseInt and fmt.Sscanf do.  A float64 is a pair   *)
(* <<"num", tenths>>, <<"nan", 0>> or <<"inf", sign>>.                     *)
(***************************************************************************)
EXTENDS Integers, Sequences, FiniteSets, TLC

\* ---------------------------------------------------------------- bounds
\* Number of goroutines serving HTTP requests at the same time.
NumHandlers == 2
\* Number of requests served at the same time under concurrent traffic.
MaxInFlight == 2
\* The clock is read at 0 and again around the time a record stamped 0
\* reaches the threshold: at threshold - 1 + i for i in 0..MaxFine.
MaxFine == 2

\* ------------------------------------------------------- program constants
\* cleanupThreshold / time.Millisecond
cleanupThreshold == 5000
ErrorSuccess == -1
ErrorWrongID == 1201
ErrorWrongVesselType == 1202

\* The goroutines: the request handlers and cleanupOldVessels.
Handlers == {<<"handler", i>> : i \in 1..NumHandlers}
Sweeper == <<"cleanupOldVessels", 0>>
Procs == Handlers \cup {Sweeper}
None == <<"none", 0>>

\* ------------------------------------------------------------- characters
DecDigits == <<"0", "1", "2", "3", "4", "5", "6", "7", "8", "9">>
HexDigits == DecDigits \o <<"a", "b", "c", "d", "e", "f">>

IsDigitOf(c, digs) == \E i \in DOMAIN digs : digs[i] = c

DigitVal(c) == (CHOOSE i \in DOMAIN HexDigits : HexDigits[i] = c) - 1

Lower(c) ==
    CASE c = "A" -> "a" [] c = "B" -> "b" [] c = "F" -> "f" [] c = "I" -> "i"
      [] c = "N" -> "n" [] c = "O" -> "o" [] c = "X" -> "x"
      [] OTHER -> c

Drop(s, n) == SubSeq(s, n + 1, Len(s))

\* Length of the longest prefix of s made of characters of digs.
RECURSIVE DigitRun(_, _)
DigitRun(s, digs) ==
    IF s # <<>> /\ IsDigitOf(Head(s), digs)
    THEN 1 + DigitRun(Tail(s), digs)
    ELSE 0

\* Value of a string of digits of the given base (all of them valid).
RECURSIVE DigitsValue(_, _)
DigitsValue(s, base) ==
    IF s = <<>> THEN 0
    ELSE DigitsValue(SubSeq(s, 1, Len(s) - 1), base) * base + DigitVal(s[Len(s)])

\* ------------------------------------------------------- strconv.ParseInt
\* strconv.ParseUint(s, 0, 64): the base comes from the prefix ("0x" 16,
\* "0b" 2, "0o" 8, a leading "0" 8, otherwise 10; a prefix needs at least
\* three characters); every character must be a digit of the base.
\* (The underscore separator is not in the alphabet of the requests, and
\* the requests are too short to leave the range of 64 bits.)
ParseUintBase(s) ==
    IF s # <<>> /\ s[1] = "0"
    THEN IF Len(s) >= 3 /\ Lower(s[2]) = "b" THEN <<2, Drop(s, 2)>>
         ELSE IF Len(s) >= 3 /\ Lower(s[2]) = "o" THEN <<8, Drop(s, 2)>>
         ELSE IF Len(s) >= 3 /\ Lower(s[2]) = "x" THEN <<16, Drop(s, 2)>>
         ELSE <<8, Drop(s, 1)>>
    ELSE <<10, s>>

ParseUint(s) ==
    IF s = <<>> THEN [ok |-> FALSE, val |-> 0]
    ELSE LET bs   == ParseUintBase(s)
             base == bs[1]
             ds   == <<>> \o [i \in 1..Len(bs[2]) |-> Lower(bs[2][i])]
             digs == SubSeq(HexDigits, 1, base)
         IN IF DigitRun(ds, digs) # Len(ds) THEN [ok |-> FALSE, val |-> 0]
            ELSE [ok |-> TRUE, val |-> DigitsValue(ds, base)]

\* strconv.ParseInt(s, 0, 64): optional sign, then ParseUint.
ParseInt(s) ==
    IF s = <<>> THEN [ok |-> FALSE, val |-> 0]
    ELSE LET neg == s[1] = "-"
             u   == ParseUint(IF s[1] \in {"+", "-"} THEN Tail(s) ELSE s)
         IN IF ~u.ok THEN [ok |-> FALSE, val |-> 0]
            ELSE [ok |-> TRUE, val |-> IF neg THEN -u.val ELSE u.val]

\* Lines 225-229: vehIdInt, or -1 when veh_id is no integer.
VehIdInt(vehId) == IF ParseInt(vehId).ok THEN ParseInt(vehId).val ELSE -1

\* ------------------------------------------------------------ fmt.Sscanf
FNum(tenths) == <<"num", tenths>>
FNaN == <<"nan", 0>>
FInf(sign) == <<"inf", sign>>

HasPrefixFold(s, p) ==
    /\ Len(s) >= Len(p)
    /\ \A i \in DOMAIN p : Lower(s[i]) = p[i]

\* fmt.Sscanf(s, "%f", &f): the token is "nan", or an optional sign
\* followed by "inf" or by digits, '.', digits; whatever follows the token
\* is left unread.  A token strconv.ParseFloat rejects (also the empty one)
\* leaves f at its zero value.  A first character n or i that does not
\* start "nan"/"inf" is consumed into the token and makes it invalid.
\* (Exponents, base prefixes and underscores are not in the alphabet of
\* the requests; values carry one fractional digit.)
parseFloat(s) ==
    IF s = <<>> THEN FNum(0)
    ELSE IF Lower(s[1]) = "n"
    THEN IF HasPrefixFold(s, <<"n", "a", "n">>) THEN FNaN ELSE FNum(0)
    ELSE LET signed == s[1] \in {"+", "-"}
             sgn    == IF s[1] = "-" THEN -1 ELSE 1
             t      == IF signed THEN Tail(s) ELSE s
         IN IF t # <<>> /\ Lower(t[1]) = "i"
            THEN IF HasPrefixFold(t, <<"i", "n", "f">>) THEN FInf(sgn) ELSE FNum(0)
            ELSE LET n    == DigitRun(t, DecDigits)
                     rest == Drop(t, n)
                     dot  == rest # <<>> /\ rest[1] = "."
                     m    == IF dot THEN DigitRun(Tail(rest), DecDigits) ELSE 0
                     ip   == DigitsValue(SubSeq(t, 1, n), 10)
                     fp   == IF m > 0 THEN DigitVal(rest[2]) ELSE 0
                 IN IF n = 0 /\ m = 0 THEN FNum(0)
                    ELSE FNum(sgn * (ip * 10 + fp))

\* fmt.Sscanf(s, "%d", &i) with i an int32: optional sign and decimal
\* digits; no digit leaves i at 0 (the requests are too short to leave
\* the range of 32 bits).
parseInt32(s) ==
    IF s = <<>> THEN 0
    ELSE LET signed == s[1] \in {"+", "-"}
             sgn    == IF s[1] = "-" THEN -1 ELSE 1
             t      == IF signed THEN Tail(s) ELSE s
             n      == DigitRun(t, DecDigits)
             v      == sgn * DigitsValue(SubSeq(t, 1, n), 10)
         IN IF n = 0 THEN 0 ELSE v

\* src/vessel_types.go: a conversion between two int32 types.
VesselTypeFromInt32(code) == code

\* --------------------------------------------------------------- requests
\* The query strings the clients send to /telemetry/setVesselTelemetry.
\* An absent parameter and an empty one both read as "" (url.Values.Get).
Absent == <<>>

Query(id, x, y, z, spd, dir, name, cs, type, tx, ty, tz) ==
    [veh_id |-> id, veh_x |-> x, veh_y |-> y, veh_z |-> z, veh_abs_spd |-> spd,
     veh_dir |-> dir, veh_name |-> name, callsign |-> cs, type |-> type,
     tgt_x |-> tx, tgt_y |-> ty, tgt_z |-> tz]

Requests ==
    { Query(<<"1">>, <<"1", ".", "5">>, <<"2", ".", "5">>, <<"0">>, <<"1", "0">>,
            <<"9", "0">>, "alpha", "A1", <<"2">>, <<"0">>, <<"0">>, Absent),
      Query(<<"1">>, <<"7">>, <<"8">>, <<"9">>, <<"4">>,
            <<"4", "5">>, "bravo", "B2", <<"3">>, <<"3">>, <<"5">>, <<"1">>),
      Query(<<"a", "b", "c">>, <<"n", "o", "t", "a", "n", "u", "m", "b", "e", "r">>,
            <<"3", "x">>, <<".", "5">>, <<"-", "2">>,
            Absent, "charlie", "", <<"x">>, <<"0">>, <<"5">>, <<"0">>),
      Query(<<"0", "1">>, <<"N", "a", "N">>, <<"6">>, <<"+", "2">>, <<"1">>,
            <<"1", "8", "0">>, "delta", "D4", <<"4">>, <<"3">>, Absent, <<"2">>),
      Query(Absent, <<"1">>, <<"1">>, <<"1">>, <<"1">>,
            <<"1">>, "echo", "E5", <<"2">>, <<"1">>, <<"1">>, <<"1">>),
      Query(Absent, <<"1">>, <<"1">>, <<"1">>, <<"1">>,
            <<"1">>, "echo", "E5", Absent, <<"1">>, <<"1">>, <<"1">>),
      Query(<<"1">>, <<"1">>, <<"1">>, <<"1">>, <<"1">>,
            <<"1">>, "foxtrot", "F6", Absent, <<"1">>, <<"1">>, <<"1">>) }

\* The veh_id strings that can become keys of the map.
Keys == {q.veh_id : q \in Requests} \ {Absent}

\* The values time.Now().UnixMilli() takes; the clock never goes back.
ClockValues == {0} \cup {cleanupThreshold - 1 + i : i \in 0..MaxFine}

Named(names) == {q \in Requests : q.veh_name \in names}

\* What each kind of traffic is made of: how many requests are served at
\* the same time, the queries the clients send, the values the clock takes.
InFlight(t) == IF t \in {"serial", "expiry", "toggle"} THEN 1 ELSE MaxInFlight

Queries(t) ==
    CASE t = "serial" -> Requests
      [] t = "expiry" -> Named({"alpha", "charlie"})
      [] t = "concurrent" -> Named({"alpha", "charlie"})
      [] t = "samekey" -> Named({"alpha", "bravo"})
      [] t = "toggle" -> Named({"alpha"})
      [] t = "live" -> Named({"alpha"})

Clock(t) == IF t = "expiry" THEN ClockValues ELSE {0, cleanupThreshold + 1}

\* ------------------------------------------------------------------ state
VARIABLES
    traffic,        \* the kind of traffic the server is under (see InFlight)
    vessels,        \* the map[string]VesselTelemetry (line 21)
    vesselsMu,      \* the sync.RWMutex (line 22)
    cleanupEnabled, \* line 23
    clientInfo,     \* line 20
    clock,          \* time.Now().UnixMilli()
    pc,             \* where each goroutine stands
    req,            \* handler: the query of the request being served
    telemetry,      \* handler: the local `telemetry` (line 234)
    vesselsList,    \* handler: the local `vesselsList` (lines 259, 277)
    iter,           \* handler: the keys its range loop has produced, in order
    resp,           \* handler: the body written to the ResponseWriter
    swNow,          \* cleanupOldVessels: `now` (line 121)
    threshold,      \* cleanupOldVessels: `threshold` (line 122)
    removedCount,   \* cleanupOldVessels: `removedCount` (line 124)
    swIter,         \* cleanupOldVessels: the keys its range loop has produced
    \* history, read by the properties only
    seen,           \* handler: the contents the map had while it was reading
    sweepPre,       \* the map when the current sweep computed its threshold
    prev,           \* handler: greatest Timestamp among the set calls for its
                    \* key that had answered when its request began, or -1
    lastLock,       \* per key: the telemetry of the last upsert to take the lock
    applied,        \* the keys some upsert has written
    evicted,        \* the handlers whose key a sweep has deleted since they
                    \* wrote it, their answer not yet sent
    tick            \* what the sweeper's latest wake-up led to: "skipped" (the
                    \* toggle read off), "sweeping" (a sweep under way), "none"
\* (prev, lastLock and applied forget a key when a sweep deletes it)

locals == <<req, telemetry, vesselsList, iter, resp>>
swLocals == <<swNow, threshold, removedCount, swIter>>
history == <<seen, sweepPre, prev, lastLock, applied, evicted>>
vars == <<traffic, vessels, vesselsMu, cleanupEnabled, clientInfo, clock, pc,
          locals, swLocals, history, tick>>

NoQuery == [none |-> TRUE]
NoTelemetry == [none |-> TRUE]
NoBody == [kind |-> "none"]
EmptyMap == [k \in {} |-> NoTelemetry]

\* The state once main has started the server and the sweeper.
Boot ==
    /\ vessels = EmptyMap
    /\ vesselsMu = [w |-> None, readers |-> {}, blocked |-> {}]
    /\ cleanupEnabled = TRUE
    /\ clientInfo = [UUID |-> "uuid"]
    /\ clock = 0
    /\ pc = [p \in Procs |-> IF p = Sweeper THEN "sleep" ELSE "idle"]
    /\ req = [h \in Handlers |-> NoQuery]
    /\ telemetry = [h \in Handlers |-> NoTelemetry]
    /\ vesselsList = [h \in Handlers |-> <<>>]
    /\ iter = [h \in Handlers |-> <<>>]
    /\ resp = [h \in Handlers |-> NoBody]
    /\ swNow = 0
    /\ threshold = 0
    /\ removedCount = 0
    /\ swIter = {}
    /\ seen = [h \in Handlers |-> {}]
    /\ sweepPre = EmptyMap
    /\ prev = [h \in Handlers |-> -1]
    /\ lastLock = [k \in Keys |-> NoTelemetry]
    /\ applied = {}
    /\ evicted = {}
    /\ tick = "none"

\* Requests arrive one after the other, with every query; the clock is
\* read at 0 and past the threshold.
Init ==
    /\ Boot
    /\ traffic = "serial"

\* Requests arrive one after the other and write two keys; the clock takes
\* every value around the threshold.
InitExpiry ==
    /\ Boot
    /\ traffic = "expiry"

\* Requests overlap and write two keys; the clock is read at 0 and past
\* the threshold.
InitConcurrent ==
    /\ Boot
    /\ traffic = "concurrent"

\* Requests overlap and write the same key.
InitSameKey ==
    /\ Boot
    /\ traffic = "samekey"

\* Requests arrive one after the other while the operator turns the
\* sweeper off and on.
InitToggle ==
    /\ Boot
    /\ traffic = "toggle"

\* Requests overlap and write one key, under fair scheduling.
InitLive ==
    /\ Boot
    /\ traffic = "live"

Range(f) == {f[x] : x \in DOMAIN f}

\* ---------------------------------------------------------- sync.RWMutex
\* Lock() first takes the writers' mutex rw.w and announces itself, which
\* makes every later RLock() block; it returns once the readers that were
\* inside have left.  Unlock() lets the blocked readers in and frees rw.w.
CanTakeW == vesselsMu.w = None

TakeW(p) == [vesselsMu EXCEPT !.w = p]

\* (a Lock() that does not wait for the readers inside to leave)
LockReturns_NoReaderWait(p) == vesselsMu.w = p

LockReturns(p) == vesselsMu.w = p /\ vesselsMu.readers = {}

Unlock == [w |-> None, readers |-> vesselsMu.blocked, blocked |-> {}]

\* (an RLock() that pays no attention to writers)
RLockEnters_IgnoresWriter == TRUE

\* RLock() enters at once when no writer holds or awaits the lock.
RLockEnters == vesselsMu.w = None

RLock(p) ==
    IF RLockEnters
    THEN [vesselsMu EXCEPT !.readers = @ \cup {p}]
    ELSE [vesselsMu EXCEPT !.blocked = @ \cup {p}]

RUnlock(p) == [vesselsMu EXCEPT !.readers = @ \ {p}]

\* ------------------------------------------------- pieces of the handlers
\* (the two tests in the other order)
Validate_TypeFirst(q) ==
    IF q.type = Absent THEN ErrorWrongVesselType
    ELSE IF q.veh_id = Absent THEN ErrorWrongID
    ELSE ErrorSuccess

\* Lines 211-223: the two required parameters, veh_id first.
Validate(q) ==
    IF q.veh_id = Absent THEN ErrorWrongID
    ELSE IF q.type = Absent THEN ErrorWrongVesselType
    ELSE ErrorSuccess

\* (a target is reported as soon as one coordinate is set)
hasTgt_Either(tgtXf, tgtYf) == tgtXf # FNum(0) \/ tgtYf # FNum(0)

\* Line 232: hasTgt := tgtXf != 0 && tgtYf != 0 (a NaN differs from 0).
hasTgt(tgtXf, tgtYf) == tgtXf # FNum(0) /\ tgtYf # FNum(0)

\* Lines 231-249: the record built from the query at clock value now.
Telemetry(q, now) ==
    LET tgtXf == parseFloat(q.tgt_x)
        tgtYf == parseFloat(q.tgt_y)
    IN [ID        |-> VehIdInt(q.veh_id),
        Name      |-> q.veh_name,
        Callsign  |-> q.callsign,
        X         |-> parseFloat(q.veh_x),
        Y         |-> parseFloat(q.veh_y),
        Z         |-> parseFloat(q.veh_z),
        ABSSpeed  |-> parseFloat(q.veh_abs_spd),
        Type      |-> VesselTypeFromInt32(parseInt32(q.type)),
        Direction |-> parseFloat(q.veh_dir),
        Timestamp |-> now,
        TgtX      |-> tgtXf,
        TgtY      |-> tgtYf,
        TgtZ      |-> parseFloat(q.tgt_z),
        HasTgt    |-> hasTgt(tgtXf, tgtYf)]

\* (the map is assigned anew instead of one of its elements)
Store_Fresh(m, vehId, t) == [k \in {vehId} |-> t]

\* (the write goes to a copy of the map and is lost)
Store_Dropped(m, vehId, t) == m

\* (an insert that leaves an existing record in place)
Store_KeepOld(m, vehId, t) ==
    [k \in DOMAIN m \cup {vehId} |-> IF k \in DOMAIN m THEN m[k] ELSE t]

\* (a write that keeps whichever record carries the later Timestamp)
Store_NewestWins(m, vehId, t) ==
    [k \in DOMAIN m \cup {vehId} |->
        IF k # vehId THEN m[k]
        ELSE IF vehId \in DOMAIN m /\ m[vehId].Timestamp > t.Timestamp THEN m[vehId]
        ELSE t]

\* (a map keyed by the parsed integer: a key with the same ID is reused)
Store_ByID(m, vehId, t) ==
    LET same == {k \in DOMAIN m : m[k].ID = t.ID}
        key  == IF same = {} THEN vehId ELSE CHOOSE k \in same : TRUE
    IN [k \in DOMAIN m \cup {key} |-> IF k = key THEN t ELSE m[k]]

\* Line 252: vessels[vehId] = telemetry.
Store(m, vehId, t) ==
    [k \in DOMAIN m \cup {vehId} |-> IF k = vehId THEN t ELSE m[k]]

\* Line 127: delete(vessels, id).
Delete(m, id) == [k \in DOMAIN m \ {id} |-> m[k]]

\* (the comparison the wrong way round: the fresh records are deleted)
Expired_Reversed(vessel, limit) == vessel.Timestamp > limit

\* (a record that is exactly as old as the threshold is deleted too)
Expired_Inclusive(vessel, limit) == vessel.Timestamp <= limit

\* (the test compares with the clock, the threshold forgotten)
Expired_FromNow(vessel, limit) == vessel.Timestamp < limit + cleanupThreshold

\* Line 126: the test that decides a deletion.
Expired(vessel, limit) == vessel.Timestamp < limit

\* encoding/json refuses a float64 that is NaN or an infinity: Encode then
\* returns an error, which the handlers drop, and writes nothing.
Encodable(v) ==
    \A f \in {"X", "Y", "Z", "ABSSpeed", "Direction", "TgtX", "TgtY", "TgtZ"} :
        v[f][1] = "num"

Encode(body) ==
    IF body.kind = "vessels" /\ \E i \in DOMAIN body.vessels : ~Encodable(body.vessels[i])
    THEN [kind |-> "empty"]
    ELSE body

\* Lines 265-270 and 283-288.
VesselsBody(l, now) ==
    [kind |-> "vessels", errorcode |-> ErrorSuccess, vessels |-> l,
     count |-> Len(l), timestamp |-> now]

ReadPcs == {"set_read", "get_read"}
WritePcs == {"set_write", "set_unlock", "sw_now", "sw_scan"}

\* The contents the map had while each reading handler was inside.
Observe(m) == [h \in Handlers |-> IF pc[h] \in ReadPcs THEN seen[h] \cup {m} ELSE seen[h]]

\* The set calls for vehId whose answer has been written (the handler has
\* returned) and, among them, the greatest Timestamp; -1 when there is none.
Answered(vehId) ==
    {g \in Handlers : /\ pc[g] = "done"
                      /\ req[g].endpoint = "setVesselTelemetry"
                      /\ req[g].query.veh_id = vehId
                      /\ telemetry[g] # NoTelemetry}

Returned(vehId) ==
    IF Answered(vehId) = {} THEN -1
    ELSE CHOOSE t \in {telemetry[g].Timestamp : g \in Answered(vehId)} :
            \A g \in Answered(vehId) : telemetry[g].Timestamp <= t

\* net/http hands a request to a goroutine of its own.
Accepts(h) ==
    /\ pc[h] = "idle"
    /\ Cardinality({g \in Handlers : pc[g] # "idle"}) < InFlight(traffic)

\* --------------------------------------------------- setVesselTelemetry
\* Lines 193-249: read the query, answer an error for a missing veh_id or
\* type, otherwise build the record (its Timestamp is read here).
SetStart(h, q) ==
    /\ Accepts(h)
    /\ req' = [req EXCEPT ![h] = [endpoint |-> "setVesselTelemetry", query |-> q]]
    /\ IF Validate(q) # ErrorSuccess
       THEN /\ resp' = [resp EXCEPT ![h] = Encode([kind |-> "error", errorcode |-> Validate(q)])]
            /\ pc' = [pc EXCEPT ![h] = "done"]
            /\ UNCHANGED <<telemetry, prev>>
       ELSE /\ telemetry' = [telemetry EXCEPT ![h] = Telemetry(q, clock)]
            /\ prev' = [prev EXCEPT ![h] = Returned(q.veh_id)]
            /\ pc' = [pc EXCEPT ![h] = "set_lock"]
            /\ UNCHANGED resp
    /\ UNCHANGED <<traffic, vessels, vesselsMu, cleanupEnabled, clientInfo, clock,
                   vesselsList, iter, swLocals, tick,
                   seen, sweepPre, lastLock, applied, evicted>>

\* Line 251, first half: vesselsMu.Lock() takes rw.w.
SetLock(h) ==
    /\ pc[h] = "set_lock"
    /\ CanTakeW
    /\ vesselsMu' = TakeW(h)
    /\ pc' = [pc EXCEPT ![h] = "set_lockwait"]
    /\ UNCHANGED <<traffic, vessels, cleanupEnabled, clientInfo, clock, locals, swLocals, tick, history>>

\* Line 251, second half: Lock() returns.
SetLockEnter(h) ==
    /\ pc[h] = "set_lockwait"
    /\ LockReturns(h)
    /\ pc' = [pc EXCEPT ![h] = "set_write"]
    /\ lastLock' = [lastLock EXCEPT ![req[h].query.veh_id] = telemetry[h]]
    /\ UNCHANGED <<traffic, vessels, vesselsMu, cleanupEnabled, clientInfo, clock, locals,
                   swLocals, tick, seen, sweepPre, prev, evicted, applied>>

\* Line 252.
SetWrite(h) ==
    /\ pc[h] = "set_write"
    /\ vessels' = Store(vessels, req[h].query.veh_id, telemetry[h])
    /\ pc' = [pc EXCEPT ![h] = "set_unlock"]
    /\ applied' = applied \cup {req[h].query.veh_id}
    /\ seen' = Observe(vessels')
    /\ UNCHANGED <<traffic, vesselsMu, cleanupEnabled, clientInfo, clock, locals, swLocals, tick,
                   sweepPre, prev, evicted, lastLock>>

\* (the handler goes on to its read-back without Unlock())
SetUnlock_Skipped(h) ==
    /\ pc[h] = "set_unlock"
    /\ pc' = [pc EXCEPT ![h] = "set_rlock"]
    /\ UNCHANGED <<traffic, vessels, vesselsMu, cleanupEnabled, clientInfo, clock, locals,
                   swLocals, tick, history>>

\* Line 253.
SetUnlock(h) ==
    /\ pc[h] = "set_unlock"
    /\ vesselsMu' = Unlock
    /\ pc' = [pc EXCEPT ![h] = "set_rlock"]
    /\ UNCHANGED <<traffic, vessels, cleanupEnabled, clientInfo, clock, locals, swLocals, tick, history>>

\* ------------------------------------- the snapshot loop of both handlers
\* vesselsMu.RLock() (lines 258, 276): enter, or block behind a writer.
SnapRLock(h, at, wait, in) ==
    /\ pc[h] = at
    /\ vesselsMu' = RLock(h)
    /\ IF RLockEnters
       THEN /\ pc' = [pc EXCEPT ![h] = in]
            /\ seen' = [seen EXCEPT ![h] = {vessels}]
       ELSE /\ pc' = [pc EXCEPT ![h] = wait]
            /\ UNCHANGED seen
    /\ UNCHANGED <<traffic, vessels, cleanupEnabled, clientInfo, clock, locals, swLocals, tick,
                   sweepPre, prev, evicted, lastLock, applied>>

\* A blocked RLock() returns once a writer's Unlock() has let it in.
SnapRLockReturns(h, wait, in) ==
    /\ pc[h] = wait
    /\ h \in vesselsMu.readers
    /\ pc' = [pc EXCEPT ![h] = in]
    /\ seen' = [seen EXCEPT ![h] = {vessels}]
    /\ UNCHANGED <<traffic, vessels, vesselsMu, cleanupEnabled, clientInfo, clock, locals,
                   swLocals, tick, sweepPre, prev, evicted, lastLock, applied>>

\* One turn of `for _, v := range vessels` (lines 260-262, 278-280): the
\* loop produces, in an order of its own, a key it has not produced yet.
SnapRead(h, in) ==
    /\ pc[h] = in
    /\ \E k \in DOMAIN vessels \ Range(iter[h]) :
        /\ iter' = [iter EXCEPT ![h] = Append(@, k)]
        /\ vesselsList' = [vesselsList EXCEPT ![h] = Append(@, vessels[k])]
    /\ UNCHANGED <<traffic, vessels, vesselsMu, cleanupEnabled, clientInfo, clock, pc,
                   req, telemetry, resp, swLocals, tick, history>>

\* The loop ends and vesselsMu.RUnlock() runs (lines 263, 281).
SnapRUnlock(h, in, out) ==
    /\ pc[h] = in
    /\ DOMAIN vessels \subseteq Range(iter[h])
    /\ vesselsMu' = RUnlock(h)
    /\ pc' = [pc EXCEPT ![h] = out]
    /\ UNCHANGED <<traffic, vessels, cleanupEnabled, clientInfo, clock, locals, swLocals, tick, history>>

SetRLock(h) == SnapRLock(h, "set_rlock", "set_rwait", "set_read")
SetRLockReturns(h) == SnapRLockReturns(h, "set_rwait", "set_read")
SetRead(h) == SnapRead(h, "set_read")
SetRUnlock(h) == SnapRUnlock(h, "set_read", "set_respond")

\* Lines 265-270: the answer; the handler returns.
SetRespond(h) ==
    /\ pc[h] = "set_respond"
    /\ resp' = [resp EXCEPT ![h] = Encode(VesselsBody(vesselsList[h], clock))]
    /\ pc' = [pc EXCEPT ![h] = "done"]
    /\ UNCHANGED <<traffic, vessels, vesselsMu, cleanupEnabled, clientInfo, clock,
                   req, telemetry, vesselsList, iter, swLocals, tick,
                   seen, sweepPre, prev, evicted, lastLock, applied>>

\* ------------------------------------------------------ getTelemetryData
GetStart(h) ==
    /\ Accepts(h)
    /\ req' = [req EXCEPT ![h] = [endpoint |-> "getVessels"]]
    /\ pc' = [pc EXCEPT ![h] = "get_rlock"]
    /\ UNCHANGED <<traffic, vessels, vesselsMu, cleanupEnabled, clientInfo, clock,
                   telemetry, vesselsList, iter, resp, swLocals, tick, history>>

\* (a getVessels that takes the lock as a writer does)
GetRLock_Exclusive(h) ==
    /\ pc[h] = "get_rlock"
    /\ CanTakeW
    /\ vesselsMu.readers = {}
    /\ vesselsMu' = [TakeW(h) EXCEPT !.readers = {h}]
    /\ pc' = [pc EXCEPT ![h] = "get_read"]
    /\ seen' = [seen EXCEPT ![h] = {vessels}]
    /\ UNCHANGED <<traffic, vessels, cleanupEnabled, clientInfo, clock, locals, swLocals, tick,
                   sweepPre, prev, evicted, lastLock, applied>>

GetRLock(h) == SnapRLock(h, "get_rlock", "get_rwait", "get_read")

GetRLockReturns(h) == SnapRLockReturns(h, "get_rwait", "get_read")
GetRead(h) == SnapRead(h, "get_read")
GetRUnlock(h) == SnapRUnlock(h, "get_read", "get_respond")

\* Lines 283-288.
GetRespond(h) ==
    /\ pc[h] = "get_respond"
    /\ resp' = [resp EXCEPT ![h] = Encode(VesselsBody(vesselsList[h], clock))]
    /\ pc' = [pc EXCEPT ![h] = "done"]
    /\ UNCHANGED <<traffic, vessels, vesselsMu, cleanupEnabled, clientInfo, clock,
                   req, telemetry, vesselsList, iter, swLocals, tick, history>>

\* -------------------------------------------------------- infoGetHandler
InfoGet(h) ==
    /\ Accepts(h)
    /\ req' = [req EXCEPT ![h] = [endpoint |-> "info"]]
    /\ resp' = [resp EXCEPT ![h] = Encode([kind |-> "info", UUID |-> clientInfo.UUID])]
    /\ pc' = [pc EXCEPT ![h] = "done"]
    /\ UNCHANGED <<traffic, vessels, vesselsMu, cleanupEnabled, clientInfo, clock,
                   telemetry, vesselsList, iter, swLocals, tick, history>>

\* The answer has been sent; the goroutine serves the next request.
Return(h) ==
    /\ pc[h] = "done"
    /\ pc' = [pc EXCEPT ![h] = "idle"]
    /\ req' = [req EXCEPT ![h] = NoQuery]
    /\ telemetry' = [telemetry EXCEPT ![h] = NoTelemetry]
    /\ vesselsList' = [vesselsList EXCEPT ![h] = <<>>]
    /\ iter' = [iter EXCEPT ![h] = <<>>]
    /\ resp' = [resp EXCEPT ![h] = NoBody]
    /\ seen' = [seen EXCEPT ![h] = {}]
    /\ prev' = [prev EXCEPT ![h] = -1]
    /\ evicted' = evicted \ {h}
    /\ UNCHANGED <<traffic, vessels, vesselsMu, cleanupEnabled, clientInfo, clock, swLocals, tick,
                   sweepPre, lastLock, applied>>

\* ----------------------------------------------------- cleanupOldVessels
\* (a sweeper that does not look at the toggle)
SwWake_IgnoresToggle ==
    /\ pc[Sweeper] = "sleep"
    /\ pc' = [pc EXCEPT ![Sweeper] = "sw_lock"]
    /\ tick' = "sweeping"
    /\ UNCHANGED <<traffic, vessels, vesselsMu, cleanupEnabled, clientInfo, clock, locals,
                   swLocals, history>>

\* Lines 114-118: the sleep ends; a disabled sweeper goes back to sleep.
SwWake ==
    /\ pc[Sweeper] = "sleep"
    /\ pc' = [pc EXCEPT ![Sweeper] = IF cleanupEnabled THEN "sw_lock" ELSE "sleep"]
    /\ tick' = IF cleanupEnabled THEN "sweeping" ELSE "skipped"
    /\ UNCHANGED <<traffic, vessels, vesselsMu, cleanupEnabled, clientInfo, clock, locals,
                   swLocals, history>>

\* Line 120, first half.
SwLock ==
    /\ pc[Sweeper] = "sw_lock"
    /\ CanTakeW
    /\ vesselsMu' = TakeW(Sweeper)
    /\ pc' = [pc EXCEPT ![Sweeper] = "sw_lockwait"]
    /\ UNCHANGED <<traffic, vessels, cleanupEnabled, clientInfo, clock, locals, swLocals, tick, history>>

\* Line 120, second half.
SwLockEnter ==
    /\ pc[Sweeper] = "sw_lockwait"
    /\ LockReturns(Sweeper)
    /\ pc' = [pc EXCEPT ![Sweeper] = "sw_now"]
    /\ UNCHANGED <<traffic, vessels, vesselsMu, cleanupEnabled, clientInfo, clock, locals,
                   swLocals, tick, history>>

\* Lines 121-124.
SwNow ==
    /\ pc[Sweeper] = "sw_now"
    /\ swNow' = clock
    /\ threshold' = clock - cleanupThreshold
    /\ removedCount' = 0
    /\ swIter' = {}
    /\ sweepPre' = vessels
    /\ pc' = [pc EXCEPT ![Sweeper] = "sw_scan"]
    /\ UNCHANGED <<traffic, vessels, vesselsMu, cleanupEnabled, clientInfo, clock, locals,
                   seen, prev, evicted, lastLock, applied, tick>>

\* Lines 125-130: one turn of the range loop.
SwScan ==
    /\ pc[Sweeper] = "sw_scan"
    /\ \E id \in DOMAIN vessels \ swIter :
        /\ swIter' = swIter \cup {id}
        /\ IF Expired(vessels[id], threshold)
           THEN /\ vessels' = Delete(vessels, id)
                /\ removedCount' = removedCount + 1
                /\ seen' = Observe(vessels')
                /\ applied' = applied \ {id}
                /\ lastLock' = [lastLock EXCEPT ![id] = NoTelemetry]
                /\ prev' = [h \in Handlers |->
                               IF req[h] # NoQuery /\ req[h].endpoint = "setVesselTelemetry"
                                  /\ req[h].query.veh_id = id
                               THEN -1 ELSE prev[h]]
                /\ evicted' = evicted \cup
                        {h \in Handlers : /\ req[h] # NoQuery
                                          /\ req[h].endpoint = "setVesselTelemetry"
                                          /\ req[h].query.veh_id = id
                                          /\ pc[h] \in {"set_rlock", "set_rwait"}}
           ELSE UNCHANGED <<vessels, removedCount, seen, applied, lastLock, prev, evicted>>
    /\ UNCHANGED <<traffic, vesselsMu, cleanupEnabled, clientInfo, clock, pc, locals,
                   swNow, threshold, sweepPre, tick>>

\* Lines 132-137: the loop has ended; report, unlock, sleep again.
SwUnlock ==
    /\ pc[Sweeper] = "sw_scan"
    /\ DOMAIN vessels \subseteq swIter
    /\ vesselsMu' = Unlock
    /\ pc' = [pc EXCEPT ![Sweeper] = "sleep"]
    /\ swNow' = 0
    /\ threshold' = 0
    /\ removedCount' = 0
    /\ swIter' = {}
    /\ sweepPre' = EmptyMap
    /\ tick' = "none"
    /\ UNCHANGED <<traffic, vessels, cleanupEnabled, clientInfo, clock, locals,
                   seen, prev, evicted, lastLock, applied>>

\* ------------------------------------------------------------- the clock
Tick(t) ==
    /\ t > clock
    /\ clock' = t
    /\ UNCHANGED <<traffic, vessels, vesselsMu, cleanupEnabled, clientInfo, pc, locals,
                   swLocals, tick, history>>

Next ==
    \/ \E h \in Handlers : \E q \in Queries(traffic) : SetStart(h, q)
    \/ \E h \in Handlers : SetLock(h)
    \/ \E h \in Handlers : SetLockEnter(h)
    \/ \E h \in Handlers : SetWrite(h)
    \/ \E h \in Handlers : SetUnlock(h)
    \/ \E h \in Handlers : SetRLock(h)
    \/ \E h \in Handlers : SetRLockReturns(h)
    \/ \E h \in Handlers : SetRead(h)
    \/ \E h \in Handlers : SetRUnlock(h)
    \/ \E h \in Handlers : SetRespond(h)
    \/ \E h \in Handlers : GetStart(h)
    \/ \E h \in Handlers : GetRLock(h)
    \/ \E h \in Handlers : GetRLockReturns(h)
    \/ \E h \in Handlers : GetRead(h)
    \/ \E h \in Handlers : GetRUnlock(h)
    \/ \E h \in Handlers : GetRespond(h)
    \/ \E h \in Handlers : InfoGet(h)
    \/ \E h \in Handlers : Return(h)
    \/ SwWake
    \/ SwLock
    \/ SwLockEnter
    \/ SwNow
    \/ SwScan
    \/ SwUnlock
    \/ \E t \in Clock(traffic) : Tick(t)

\* The runtime toggle of the sweeper.  The variable is declared at line 23
\* and read at line 116; no code of main.go assigns it, so what turns it
\* off and on is taken from the specification: a plain assignment.
SetCleanupEnabled(b) ==
    /\ cleanupEnabled # b
    /\ cleanupEnabled' = b
    /\ UNCHANGED <<traffic, vessels, vesselsMu, clientInfo, clock, pc, locals,
                   swLocals, history, tick>>

NextToggle ==
    \/ Next
    \/ \E b \in BOOLEAN : SetCleanupEnabled(b)

\* Scheduling.  The Go scheduler is preemptive: a goroutine that can run
\* does run, so every step of a handler that has begun, and every step of
\* the sweeper (its Sleep ends), is weakly fair.  Taking rw.w is strongly
\* fair: sync.Mutex hands the mutex to a goroutine that has waited for it
\* (starvation mode), so one that finds it free again and again gets it.
\* The arrival of requests has no fairness: clients may stop or go on.
HandlerRuns(h) ==
    \/ SetLockEnter(h) \/ SetWrite(h) \/ SetUnlock(h)
    \/ SetRLock(h) \/ SetRLockReturns(h) \/ SetRead(h) \/ SetRUnlock(h)
    \/ SetRespond(h)
    \/ GetRLock(h) \/ GetRLockReturns(h) \/ GetRead(h) \/ GetRUnlock(h)
    \/ GetRespond(h)
    \/ Return(h)

SweeperRuns == SwWake \/ SwLockEnter \/ SwNow \/ SwScan \/ SwUnlock

Fairness ==
    /\ \A h \in Handlers : WF_vars(HandlerRuns(h)) /\ SF_vars(SetLock(h))
    /\ WF_vars(SweeperRuns)
    /\ SF_vars(SwLock)
    /\ WF_vars(\E t \in Clock(traffic) : Tick(t))

Spec == Init /\ [][Next]_vars

SpecLive == InitLive /\ [][Next]_vars /\ Fairness

SpecToggle == InitToggle /\ [][NextToggle]_vars

SpecExpiry == InitExpiry /\ [][Next]_vars

SpecConcurrent == InitConcurrent /\ [][Next]_vars

SpecSameKey == InitSameKey /\ [][Next]_vars

\* ============================================================ properties
WritersInside == {p \in Procs : pc[p] \in WritePcs}
ReadersInside == {h \in Handlers : pc[h] \in ReadPcs}

IsSet(h) == req[h] # NoQuery /\ req[h].endpoint = "setVesselTelemetry"
VehId(h) == req[h].query.veh_id

\* The range loop of handler h has produced every entry of the map.
LoopDone(h) == DOMAIN vessels \subseteq Range(iter[h])

\* What handler h has collected is exactly the content of the map m.
IsSnapshotOf(h, m) ==
    /\ Range(iter[h]) = DOMAIN m
    /\ Len(iter[h]) = Cardinality(DOMAIN m)
    /\ Len(vesselsList[h]) = Len(iter[h])
    /\ \A i \in DOMAIN iter[h] : vesselsList[h][i] = m[iter[h][i]]

PastWrite == {"set_unlock", "set_rlock", "set_rwait", "set_read", "set_respond", "done"}

\* C1. Snapshot atomicity: the list a handler has built when it leaves its
\* read section is, entry for entry, the whole content the map had at one
\* instant while the handler was inside (so no record is mixed from two
\* upserts and none was absent at that instant).
C1_SnapshotAtomic ==
    \A h \in Handlers :
        pc[h] \in {"set_respond", "get_respond"} =>
            \E m \in seen[h] : IsSnapshotOf(h, m)

\* A snapshot of two records has been completed while a writer (an upsert
\* or the sweeper) was waiting for the readers to leave.
C1_Witness ==
    \E h \in Handlers :
        /\ pc[h] \in {"set_respond", "get_respond"}
        /\ Len(vesselsList[h]) = 2
        /\ \E p \in Procs : pc[p] \in {"set_lockwait", "sw_lockwait"}

\* C2. Lock discipline: at most one writer is inside its critical section,
\* no reader is inside while a writer is, whoever is inside holds the lock
\* in the matching mode, and every step that changes the map or copies an
\* entry of it is taken by a goroutine that is inside.
C2_Discipline ==
    /\ Cardinality(WritersInside) <= 1
    /\ WritersInside # {} => ReadersInside = {}
    /\ \A p \in WritersInside : vesselsMu.w = p /\ vesselsMu.readers = {}
    /\ ReadersInside \subseteq vesselsMu.readers

C2_LockDiscipline ==
    /\ C2_Discipline
    /\ [][/\ C2_Discipline'
          /\ vessels' # vessels =>
                \E p \in WritersInside : ReadersInside = {} /\ WritersInside = {p}
          /\ \A h \in Handlers :
                vesselsList'[h] # vesselsList[h] /\ vesselsList'[h] # <<>> =>
                    h \in ReadersInside /\ WritersInside = {}]_vars

\* Two readers are inside together.
C2_Witness ==
    /\ Cardinality(ReadersInside) = 2
    /\ WritersInside = {}
    /\ vessels # EmptyMap

\* C3. Expiry boundary: when a sweep that read the clock at swNow has gone
\* through the map, the map holds exactly the records it held before whose
\* Timestamp >= swNow - cleanupThreshold, unchanged.
C3_ExpiryBoundary ==
    (pc[Sweeper] = "sw_scan" /\ DOMAIN vessels \subseteq swIter) =>
        vessels = [k \in {x \in DOMAIN sweepPre :
                            sweepPre[x].Timestamp >= swNow - cleanupThreshold}
                   |-> sweepPre[k]]

\* A sweep has removed a record stamped swNow - cleanupThreshold - 1 and
\* kept another one.
C3_Witness ==
    /\ pc[Sweeper] = "sw_scan"
    /\ DOMAIN vessels \subseteq swIter
    /\ vessels # EmptyMap
    /\ \E k \in DOMAIN sweepPre :
        /\ sweepPre[k].Timestamp = swNow - cleanupThreshold - 1
        /\ k \notin DOMAIN vessels

\* C4. Upsert-replace: a set call that began after another set call for the
\* same veh_id had answered (no sweep deleting the key since) leaves under
\* that key its own record, with a Timestamp >= the earlier call's; and a
\* snapshot read back while the map holds that record has exactly one entry
\* for the key, the record of the second call.
C4_UpsertReplace ==
    \A h \in Handlers :
        (IsSet(h) /\ prev[h] # -1) =>
            /\ pc[h] = "set_unlock" =>
                /\ VehId(h) \in DOMAIN vessels
                /\ vessels[VehId(h)] = telemetry[h]
                /\ telemetry[h].Timestamp >= prev[h]
            /\ (/\ pc[h] = "set_read"
                /\ LoopDone(h)
                /\ VehId(h) \in DOMAIN vessels
                /\ vessels[VehId(h)] = telemetry[h]) =>
                    /\ Cardinality({i \in DOMAIN iter[h] : iter[h][i] = VehId(h)}) = 1
                    /\ \A i \in DOMAIN iter[h] :
                        iter[h][i] = VehId(h) => vesselsList[h][i] = telemetry[h]

\* The second call, with other field values and a later Timestamp than the
\* first, has read its snapshot back.
C4_Witness ==
    \E h, g \in Handlers :
        /\ IsSet(h) /\ IsSet(g) /\ VehId(h) = VehId(g)
        /\ pc[g] = "done"
        /\ pc[h] = "set_read" /\ LoopDone(h)
        /\ prev[h] # -1
        /\ telemetry[h].Timestamp > prev[h]
        /\ telemetry[h].Name # telemetry[g].Name
        /\ vessels[VehId(h)] = telemetry[h]

\* C5. Missing-field errors: the step that serves a set request without
\* veh_id answers {errorcode 1201} and nothing else (also when type is
\* missing too), one with veh_id but without type answers {errorcode 1202};
\* the request is over with that step, which leaves the map and the lock
\* as they were.
C5_MissingFieldErrors ==
    [][\A h \in Handlers :
          (/\ pc[h] = "idle"
           /\ req'[h] # NoQuery
           /\ req'[h].endpoint = "setVesselTelemetry"
           /\ (req'[h].query.veh_id = <<>> \/ req'[h].query.type = <<>>)) =>
              /\ pc'[h] = "done"
              /\ resp'[h] = [kind |-> "error",
                             errorcode |-> IF req'[h].query.veh_id = <<>>
                                           THEN 1201 ELSE 1202]
              /\ vessels' = vessels
              /\ vesselsMu' = vesselsMu]_vars

\* A request with neither veh_id nor type has been answered 1201 while the
\* map holds records.
C5_Witness ==
    \E h \in Handlers :
        /\ pc[h] = "done"
        /\ IsSet(h)
        /\ VehId(h) = <<>>
        /\ req[h].query.type = <<>>
        /\ resp[h] = [kind |-> "error", errorcode |-> 1201]
        /\ vessels # EmptyMap

\* C6. At most one live record per vessel identifier: no two records of the
\* map, and no two records of a snapshot, carry the same ID.
C6_OneRecordPerId ==
    /\ \A k1, k2 \in DOMAIN vessels :
        vessels[k1].ID = vessels[k2].ID => k1 = k2
    /\ \A h \in Handlers : \A i, j \in DOMAIN vesselsList[h] :
        vesselsList[h][i].ID = vesselsList[h][j].ID => i = j

\* C7. Record lifecycle: a key leaves the map only in a step of the sweeper's
\* loop, the sweeper holding the lock, and only when the clock value the
\* sweeper read minus the record's Timestamp exceeds the threshold; no other
\* step makes the set of keys smaller.
C7_Lifecycle ==
    [][\A k \in DOMAIN vessels :
          k \notin DOMAIN vessels' =>
              /\ pc[Sweeper] = "sw_scan"
              /\ vesselsMu.w = Sweeper
              /\ swIter' = swIter \cup {k}
              /\ DOMAIN vessels' = DOMAIN vessels \ {k}
              /\ swNow - vessels[k].Timestamp > cleanupThreshold
              /\ clock - vessels[k].Timestamp > cleanupThreshold]_vars

\* The sweeper has deleted a record while a set request was being served.
C7_Witness ==
    /\ pc[Sweeper] = "sw_scan"
    /\ removedCount > 0
    /\ \E h \in Handlers : pc[h] = "set_lock"

\* C8. Same-id last-write-wins: once every set request for a veh_id that is
\* being served has written, the map holds under that veh_id exactly the
\* record of the request that took the write lock last.
C8_LastWriteWins ==
    \A k \in Keys :
        (/\ lastLock[k] # NoTelemetry
         /\ ~ \E h \in Handlers :
                /\ IsSet(h)
                /\ VehId(h) = k
                /\ pc[h] \in {"set_lock", "set_lockwait", "set_write"}) =>
            /\ k \in DOMAIN vessels
            /\ vessels[k] = lastLock[k]

\* Two overlapping requests for one veh_id have both written, and the map
\* holds the record of the one that read the clock first.
C8_Witness ==
    \E h, g \in Handlers :
        /\ IsSet(h) /\ IsSet(g) /\ VehId(h) = VehId(g)
        /\ pc[h] \in PastWrite /\ pc[g] \in PastWrite
        /\ telemetry[h] # NoTelemetry /\ telemetry[g] # NoTelemetry
        /\ telemetry[h].Timestamp < telemetry[g].Timestamp
        /\ telemetry[h].Name # telemetry[g].Name
        /\ VehId(h) \in DOMAIN vessels
        /\ vessels[VehId(h)] = telemetry[h]

\* C9. Multi-id accumulation: the keys of the map are exactly the veh_id
\* strings upserted and not deleted by a sweep since, one record each, and a
\* snapshot that has gone through the map has one entry for each of them.
C9_MultiIdAccumulation ==
    /\ DOMAIN vessels = applied
    /\ \A h \in Handlers :
        (pc[h] \in ReadPcs /\ LoopDone(h)) =>
            /\ Range(iter[h]) = applied
            /\ Len(iter[h]) = Cardinality(applied)
            /\ Len(vesselsList[h]) = Cardinality(applied)

\* Every key has been upserted and a snapshot holds as many records.
C9_Witness ==
    /\ applied = Keys
    /\ \E h \in Handlers :
        /\ pc[h] \in ReadPcs
        /\ LoopDone(h)
        /\ Len(vesselsList[h]) = Cardinality(Keys)

\* C10. Malformed input is coerced, never rejected: a set request with
\* veh_id and type both present writes its record under the raw veh_id,
\* with ID -1 when veh_id is no integer, and is answered errorcode -1.
C10_CoercedNeverRejected ==
    \A h \in Handlers :
        (IsSet(h) /\ VehId(h) # <<>> /\ req[h].query.type # <<>>) =>
            /\ pc[h] = "set_unlock" =>
                /\ VehId(h) \in DOMAIN vessels
                /\ vessels[VehId(h)] = telemetry[h]
                /\ ~ParseInt(VehId(h)).ok => vessels[VehId(h)].ID = -1
            /\ pc[h] = "done" =>
                /\ resp[h].kind = "vessels"
                /\ resp[h].errorcode = -1

\* After a skipped wake-up the sweeper sleeps and is not the writer.
C11_Skipped == tick = "skipped" => (pc[Sweeper] = "sleep" /\ vesselsMu.w # Sweeper)

\* C11. Sweeper toggle: a wake-up of the sweeper that reads the toggle as
\* off is a no-op (no lock taken, the map, the lock and every goroutine left
\* as they were); the sweeper leaves its sleep only when it reads the toggle
\* as on, so the first wake-up after the toggle is turned off observes it;
\* after a skipped wake-up the sweeper stays asleep, also once the toggle is
\* on again, until its next wake-up; and a wake-up leads to exactly one
\* Lock(), one pass and one Unlock() before the sweeper sleeps again.
C11_SweeperToggle ==
    /\ C11_Skipped
    /\ [][/\ C11_Skipped'
          /\ (pc[Sweeper] = "sleep" /\ ~cleanupEnabled) =>
                /\ pc'[Sweeper] = "sleep"
                /\ tick' # tick => (tick' = "skipped" /\ vessels' = vessels
                                    /\ vesselsMu' = vesselsMu /\ pc' = pc)
          /\ pc[Sweeper] = "sleep" => DOMAIN vessels \subseteq DOMAIN vessels'
          /\ (pc[Sweeper] = "sleep" /\ pc'[Sweeper] # "sleep") =>
                (cleanupEnabled /\ pc'[Sweeper] = "sw_lock" /\ tick' = "sweeping")
          /\ (vesselsMu.w # Sweeper /\ vesselsMu'.w = Sweeper) =>
                (pc[Sweeper] = "sw_lock" /\ tick = "sweeping")
          /\ (pc[Sweeper] # "sw_lock" /\ pc'[Sweeper] = "sw_lock") =>
                pc[Sweeper] = "sleep"
          /\ (vesselsMu.w = Sweeper /\ vesselsMu'.w # Sweeper) =>
                (pc'[Sweeper] = "sleep" /\ tick' = "none")]_vars

\* The latest wake-up was skipped, the toggle is on again, and the map
\* still holds a record older than the threshold: no sweep was queued.
C11_Witness ==
    /\ tick = "skipped"
    /\ cleanupEnabled
    /\ \E k \in DOMAIN vessels : clock - vessels[k].Timestamp > cleanupThreshold

\* C12. The sweeper is not starved: under fair scheduling, whatever requests
\* arrive, a sweeper that calls Lock() gets the lock, and a sweeper that
\* holds it gives it back and sleeps; between the two it visits each key of
\* the map once, and it unlocks only when the loop has gone through the map.
C12_SweeperNotStarved ==
    /\ (pc[Sweeper] = "sw_lock") ~> (pc[Sweeper] = "sw_now")
    /\ (pc[Sweeper] = "sw_now") ~> (pc[Sweeper] = "sleep" /\ vesselsMu.w # Sweeper)
    /\ [][/\ (pc[Sweeper] = "sw_scan" /\ swIter' # swIter /\ pc'[Sweeper] = "sw_scan") =>
                \E id \in DOMAIN vessels \ swIter : swIter' = swIter \cup {id}
          /\ (vesselsMu.w = Sweeper /\ vesselsMu'.w # Sweeper) =>
                (pc[Sweeper] = "sw_scan" /\ DOMAIN vessels \subseteq swIter)]_vars

\* The sweeper waits in Lock() for a reader to leave while another request
\* is blocked behind it.
C12_Witness ==
    /\ pc[Sweeper] = "sw_lockwait"
    /\ vesselsMu.readers # {}
    /\ vesselsMu.blocked # {}

\* C13. hasTarget derivation: every record of the map has HasTgt true
\* exactly when its TgtX is not zero and its TgtY is not zero, whatever its
\* TgtZ; the records sent with targets (0,0), (0,5) and (3,absent) have it
\* false, the one sent with (3,5) has it true.
C13_HasTargetDerivation ==
    \A k \in DOMAIN vessels :
        LET v == vessels[k]
        IN /\ v.HasTgt <=> (v.TgtX # <<"num", 0>> /\ v.TgtY # <<"num", 0>>)
           /\ v.Name \in {"alpha", "charlie", "delta"} => ~v.HasTgt
           /\ v.Name = "bravo" => v.HasTgt

\* The map holds a record with target (3,5,1) and HasTgt true, one with
\* target (0,5,0) and one with target (3,0,2), both with HasTgt false.
C13_Witness ==
    \E k1, k2, k3 \in DOMAIN vessels :
        /\ vessels[k1].HasTgt
        /\ vessels[k1].TgtX = <<"num", 30>> /\ vessels[k1].TgtY = <<"num", 50>>
        /\ ~vessels[k2].HasTgt
        /\ vessels[k2].TgtX = <<"num", 0>> /\ vessels[k2].TgtY = <<"num", 50>>
        /\ ~vessels[k3].HasTgt
        /\ vessels[k3].TgtX = <<"num", 30>> /\ vessels[k3].TgtY = <<"num", 0>>
        /\ vessels[k3].TgtZ = <<"num", 20>>

\* The endpoint handler h serves in a step (the one it is given, when the
\* step is the arrival of the request).
Serves(h) == IF req[h] # NoQuery THEN req[h].endpoint ELSE req'[h].endpoint

Steps(h) == pc'[h] # pc[h] \/ iter'[h] # iter[h]

\* A getVessels or info request is never the writer, and a getVessels
\* request inside its loop is among the readers.
C14_Reads ==
    \A h \in Handlers :
        (req[h] # NoQuery /\ req[h].endpoint \in {"getVessels", "info"}) =>
            /\ vesselsMu.w # h
            /\ pc[h] \in {"get_rlock", "get_rwait", "get_read", "get_respond", "done"}
            /\ pc[h] = "get_read" => h \in vesselsMu.readers

\* C14. getVessels is read-only: every step of a getVessels request leaves
\* the map as it was, keys and records, and touches the lock only as a
\* reader (the writer's side is left alone, the request is never the
\* writer); a step of an info request leaves map and lock as they were.
C14_GetVesselsReadOnly ==
    /\ C14_Reads
    /\ [][C14_Reads']_vars
    /\ [][\A h \in Handlers :
            (Steps(h) /\ Serves(h) \in {"getVessels", "info"}) =>
                /\ vessels' = vessels
                /\ vesselsMu'.w = vesselsMu.w
                /\ vesselsMu'.readers \ {h} = vesselsMu.readers \ {h}
                /\ vesselsMu'.blocked \ {h} = vesselsMu.blocked \ {h}
                /\ Serves(h) = "info" => vesselsMu' = vesselsMu]_vars

\* A getVessels request has read a map of two records while a set request
\* is being served.
C14_Witness ==
    \E h, g \in Handlers :
        /\ req[h] # NoQuery /\ req[h].endpoint = "getVessels"
        /\ pc[h] = "get_respond"
        /\ Len(vesselsList[h]) = 2
        /\ IsSnapshotOf(h, vessels)
        /\ IsSet(g) /\ pc[g] = "set_lock"

\* C15. The Timestamp of a record is the clock value at its upsert: when a
\* set request gets the write lock its record's Timestamp is not behind the
\* clock, and the write that follows leaves under the key a Timestamp >= the
\* one it replaces.
C15_TimestampAtUpsert ==
    [][\A h \in Handlers :
          /\ (pc[h] = "set_lockwait" /\ pc'[h] = "set_write") =>
                telemetry[h].Timestamp >= clock
          /\ (pc[h] = "set_write" /\ pc'[h] = "set_unlock") =>
                /\ VehId(h) \in DOMAIN vessels'
                /\ VehId(h) \in DOMAIN vessels =>
                      vessels'[VehId(h)].Timestamp >= vessels[VehId(h)].Timestamp]_vars

Holds(k, ts) == k \in DOMAIN vessels /\ vessels[k].Timestamp = ts

\* C17. Stale records are eventually evicted: under fair scheduling, once
\* the clock is more than the threshold past the Timestamp of a record of
\* the map, the record is eventually gone from the map (deleted, or replaced
\* by an upsert with another Timestamp); and a snapshot only ever collects
\* records the map holds at that moment, so a deleted record is in no
\* snapshot taken afterwards.
C17_StaleEvicted ==
    /\ \A k \in Keys : \A ts \in {0, cleanupThreshold + 1} :
          (Holds(k, ts) /\ clock - ts > cleanupThreshold) ~> ~Holds(k, ts)
    /\ [][\A h \in Handlers :
            (vesselsList'[h] # vesselsList[h] /\ vesselsList'[h] # <<>>) =>
                \E k \in DOMAIN vessels :
                    vesselsList'[h] = Append(vesselsList[h], vessels[k])]_vars

\* The sweeper has deleted a record older than the threshold while a
\* snapshot waits for the lock, and the map is empty.
C17_Witness ==
    /\ pc[Sweeper] = "sw_scan"
    /\ removedCount > 0
    /\ vessels = EmptyMap
    /\ \E k \in DOMAIN sweepPre : clock - sweepPre[k].Timestamp > cleanupThreshold
    /\ \E h \in Handlers : pc[h] \in {"get_rwait", "set_rwait"}

\* The set requests being served that have built their record and have
\* not written it yet.
Pending == {h \in Handlers : IsSet(h) /\ pc[h] \in {"set_lock", "set_lockwait", "set_write"}}

\* The two writes of two pending requests with different keys commute.
C18_Commute ==
    \A h, g \in Pending :
        VehId(h) # VehId(g) =>
            Store(Store(vessels, VehId(h), telemetry[h]), VehId(g), telemetry[g])
              = Store(Store(vessels, VehId(g), telemetry[g]), VehId(h), telemetry[h])

\* C18. Independence of upserts to different keys: the write of a set
\* request puts its record under its own key and leaves every other key of
\* the map, and the record under it, as they were; and for two requests
\* with different keys that are both about to write, the map after the two
\* writes is the same whichever is applied first.
C18_Independence ==
    /\ C18_Commute
    /\ [][C18_Commute']_vars
    /\ [][\A h \in Handlers :
            (pc[h] = "set_write" /\ pc'[h] = "set_unlock") =>
                /\ DOMAIN vessels' = DOMAIN vessels \cup {VehId(h)}
                /\ vessels'[VehId(h)] = telemetry[h]
                /\ \A k \in DOMAIN vessels \ {VehId(h)} : vessels'[k] = vessels[k]]_vars

\* Two overlapping requests with different keys have both written and the
\* map holds both records.
C18_Witness ==
    \E h, g \in Handlers :
        /\ IsSet(h) /\ IsSet(g)
        /\ pc[h] = "set_unlock" /\ pc[g] \in PastWrite
        /\ telemetry[g] # NoTelemetry
        /\ VehId(h) # VehId(g)
        /\ DOMAIN vessels = {VehId(h), VehId(g)}
        /\ vessels[VehId(h)] = telemetry[h]
        /\ vessels[VehId(g)] = telemetry[g]

\* What each goroutine holds of the lock, by where it stands: the writer's
\* side between Lock() and Unlock(), the reader's side between RLock() and
\* RUnlock(), and nothing anywhere else.
C19_NoLeak ==
    /\ \A p \in Procs :
        vesselsMu.w = p <=>
            pc[p] \in {"set_lockwait", "set_write", "set_unlock",
                       "sw_lockwait", "sw_now", "sw_scan"}
    /\ \A h \in Handlers :
        /\ h \in vesselsMu.readers \cup vesselsMu.blocked =>
                pc[h] \in {"set_rwait", "set_read", "get_rwait", "get_read"}
        /\ pc[h] \in {"set_read", "get_read"} => h \in vesselsMu.readers
    /\ Sweeper \notin vesselsMu.readers \cup vesselsMu.blocked

\* C19. No deadlock and no lock leak: a goroutine that calls Lock() or
\* RLock() holds neither side of the lock at that moment; a goroutine holds
\* the lock only between its Lock()/RLock() and the matching unlock and
\* nothing once it answers or sleeps; and under fair scheduling every
\* request being served gets its answer and every sweep returns to sleep.
C19_NoDeadlockNoLeak ==
    /\ C19_NoLeak
    /\ [][C19_NoLeak']_vars
    /\ [][\A p \in Procs :
            /\ (vesselsMu.w # p /\ vesselsMu'.w = p) =>
                    p \notin vesselsMu.readers \cup vesselsMu.blocked
            /\ (p \notin vesselsMu.readers \cup vesselsMu.blocked
                /\ p \in vesselsMu'.readers \cup vesselsMu'.blocked) =>
                    vesselsMu.w # p]_vars
    /\ \A h \in Handlers : (pc[h] # "idle") ~> (pc[h] = "done")
    /\ (pc[Sweeper] # "sleep") ~> (pc[Sweeper] = "sleep")

\* The sweeper is inside its loop while one request waits to take the
\* write lock and another is blocked in RLock().
C19_Witness ==
    /\ pc[Sweeper] = "sw_scan"
    /\ \E h, g \in Handlers :
        /\ pc[h] = "set_lock"
        /\ pc[g] \in {"set_rwait", "get_rwait"}
        /\ g \in vesselsMu.blocked

====
